---------------------------- MODULE Spec2Model ----------------------------
(***************************************************************************)
(* MusicTheoryEnv (music/music_theory_env.py): the music-theory reward     *)
(* terms computed on every step of a melody-composing episode, and the     *)
(* leap-tracking state they keep between the steps.                        *)
(*                                                                         *)
(* Units.  reward_preferred_intervals is in hundredths (0.07 is 7);        *)
(* reward_motif and reward_repeated_motif are in hundredths too            *)
(* (1. + bonus is 100 + 100*bonus); every other term is in the source's    *)
(* own unit.  reward_penalize_autocorrelation is a real-valued pure        *)
(* function of the composition and is not represented.                     *)
(*                                                                         *)
(* music/util.py and music/music_env.py are imported by the source and are *)
(* not among its files: the event codes, the interval constants and the    *)
(* base environment (composition, beat, num_notes) follow the              *)
(* specification's description of them.                                    *)
(***************************************************************************)
EXTENDS Integers, Sequences, FiniteSets, TLC

VARIABLES composition, beat, num_notes,
          composition_direction, leapt_from, steps_since_last_leap,
          ret

vars == <<composition, beat, num_notes,
          composition_direction, leapt_from, steps_since_last_leap, ret>>

---------------------------------------------------------------------------
(* Constants of music/util.py *)

NOTE_OFF == 0
NO_EVENT == 1

C_MAJOR_KEY ==
    {0, 1, 2, 4, 6, 7, 9, 11, 13, 14, 16, 18, 19, 21, 23, 25, 26, 28, 30, 31,
     33, 35, 37}
C_MAJOR_TONIC == 14

NOTES_PER_BEAT == 4
NOTES_PER_BAR == 4

SECOND == 2
THIRD == 4
FOURTH == 5
FIFTH == 7
SIXTH == 9
SEVENTH == 11
OCTAVE == 12

(* The special interval buckets: distinct values below every real interval. *)
REST_INTERVAL == -1
HOLD_INTERVAL == -2
REST_INTERVAL_AFTER_THIRD_OR_FIFTH == -3
HOLD_INTERVAL_AFTER_THIRD_OR_FIFTH == -4
IN_KEY_THIRD == -5
IN_KEY_FIFTH == -6

ASCENDING == 1
DESCENDING == -1

LEAP_RESOLVED == 1
LEAP_DOUBLED == -1

(* Python's None, for leapt_from and for detect_repeated_motif's count. *)
None == -100

(* Constants of music_theory_env.py *)
c_notes == {2, 14, 26}
g_notes == {9, 21, 33}
e_notes == {6, 18, 30}
tonic_notes == {2, 14, 26}
fifth_notes == {9, 21, 33}
steps_between_leaps == 12
unique == 3

---------------------------------------------------------------------------
(* Bounds *)

(* Longest episode (num_notes) of each specification. *)
MaxNotes == 6
MaxNotesMotif == 8
MaxNotesRepeat == 9
MaxNotesLeap == 16
(* Sounding pitches the driver of SpecLeap plays in one episode. *)
MaxPitchEvents == 3
(* Times the driver of SpecRepeat changes the event in one episode. *)
MaxChanges == 4

(* The actions the driver draws from, per specification. *)
Actions == {NOTE_OFF, NO_EVENT, 14, 16, 21, 25, 28}
ActionsMotif == {NO_EVENT, 14, 16, 21}
ActionsRepeat == {NOTE_OFF, NO_EVENT, 14, 16}
ActionsLeap == {NO_EVENT, 14, 21}

---------------------------------------------------------------------------
(* Helpers *)

IsRest(x) == x = NO_EVENT \/ x = NOTE_OFF

Abs(x) == IF x < 0 THEN -x ELSE x

(* list.count *)
Count(comp, x) == Cardinality({i \in 1..Len(comp) : comp[i] = x})

(* max(...) and min(...) of a non-empty set of integers *)
Max(S) == CHOOSE m \in S : \A x \in S : x <= m
Min(S) == CHOOSE m \in S : \A x \in S : m <= x

---------------------------------------------------------------------------
(* reward_key, reward_tonic *)

reward_key(action) == IF action \in C_MAJOR_KEY THEN 1 ELSE 0

(* Mutant: a NOTE-OFF is also accepted right after the final bar's tonic.  *)
reward_tonic_rest_after_tonic(action, beat_, num_notes_) ==
    LET last_beat == beat_ - 1
        first_note_of_final_bar == num_notes_ - NOTES_PER_BAR
    IN  IF last_beat = 0 \/ last_beat = first_note_of_final_bar
        THEN (IF action = C_MAJOR_TONIC THEN 1 ELSE 0)
        ELSE IF last_beat >= first_note_of_final_bar + 1
        THEN (IF action = NO_EVENT \/ action = NOTE_OFF THEN 1 ELSE 0)
        ELSE 0

reward_tonic(action, beat_, num_notes_) ==
    LET last_beat == beat_ - 1
        first_note_of_final_bar == num_notes_ - NOTES_PER_BAR
    IN  IF last_beat = 0 \/ last_beat = first_note_of_final_bar
        THEN (IF action = C_MAJOR_TONIC THEN 1 ELSE 0)
        ELSE IF last_beat = first_note_of_final_bar + 1
        THEN (IF action = NO_EVENT THEN 1 ELSE 0)
        ELSE IF last_beat > first_note_of_final_bar + 1
        THEN (IF action = NO_EVENT \/ action = NOTE_OFF THEN 1 ELSE 0)
        ELSE 0

---------------------------------------------------------------------------
(* reward_penalize_repeating *)

(* The loop over i = len(composition) - 2 .. 0; i is the 1-based index.    *)
RECURSIVE scan_repeating(_, _, _, _)
scan_repeating(comp, action, i, st) ==
    IF i < 1 THEN st
    ELSE IF comp[i] = action
    THEN scan_repeating(comp, action, i - 1,
                        [st EXCEPT !.num_repeated = @ + 1])
    ELSE IF comp[i] = NOTE_OFF
    THEN scan_repeating(comp, action, i - 1,
                        [st EXCEPT !.contains_breaks = TRUE])
    ELSE IF comp[i] = NO_EVENT
    THEN scan_repeating(comp, action, i - 1,
                        [st EXCEPT !.contains_held_notes = TRUE])
    ELSE st

(* Mutant: the tolerance for successive repeats is a whole beat.           *)
reward_penalize_repeating_whole_beat(comp, action) ==
    LET st == scan_repeating(comp, action, Len(comp) - 1,
                  [num_repeated |-> 0, contains_held_notes |-> FALSE,
                   contains_breaks |-> FALSE])
        tolerance == NOTES_PER_BEAT
    IN  IF ~st.contains_held_notes /\ ~st.contains_breaks
        THEN (IF st.num_repeated > tolerance
              THEN -(st.num_repeated - tolerance) ELSE 0)
        ELSE (IF st.num_repeated > 6 THEN -(st.num_repeated - 6) ELSE 0)

(* Mutant: holds and rests in the run do not change the tolerance.         *)
reward_penalize_repeating_one_tolerance(comp, action) ==
    LET st == scan_repeating(comp, action, Len(comp) - 1,
                  [num_repeated |-> 0, contains_held_notes |-> FALSE,
                   contains_breaks |-> FALSE])
        tolerance == NOTES_PER_BEAT \div 2
    IN  IF st.num_repeated > tolerance
        THEN -(st.num_repeated - tolerance) ELSE 0

reward_penalize_repeating(comp, action) ==
    LET st == scan_repeating(comp, action, Len(comp) - 1,
                  [num_repeated |-> 0, contains_held_notes |-> FALSE,
                   contains_breaks |-> FALSE])
        tolerance == NOTES_PER_BEAT \div 2
    IN  IF ~st.contains_held_notes /\ ~st.contains_breaks
        THEN (IF st.num_repeated > tolerance
              THEN -(st.num_repeated - tolerance) ELSE 0)
        ELSE (IF st.num_repeated > 6 THEN -(st.num_repeated - 6) ELSE 0)

---------------------------------------------------------------------------
(* Motifs *)

(* Mutant: HOLD and NOTE-OFF count among the notes of the motif.           *)
detect_last_motif_counting_rests(comp) ==
    IF Len(comp) < NOTES_PER_BAR
    THEN [motif |-> <<>>, num_unique_notes |-> 0]
    ELSE LET last_bar == SubSeq(comp, Len(comp) - NOTES_PER_BAR + 1, Len(comp))
             actual_notes == {last_bar[i] : i \in 1..Len(last_bar)}
         IN  [motif |-> last_bar, num_unique_notes |-> Cardinality(actual_notes)]

detect_last_motif(comp) ==
    IF Len(comp) < NOTES_PER_BAR
    THEN [motif |-> <<>>, num_unique_notes |-> 0]
    ELSE LET last_bar == SubSeq(comp, Len(comp) - NOTES_PER_BAR + 1, Len(comp))
             actual_notes == {last_bar[i] : i \in 1..Len(last_bar)}
                                 \ {NO_EVENT, NOTE_OFF}
         IN  [motif |-> last_bar, num_unique_notes |-> Cardinality(actual_notes)]

reward_motif(comp) ==
    LET num_notes_in_motif == detect_last_motif(comp).num_unique_notes
    IN  IF num_notes_in_motif >= unique
        THEN 100 + (100 * (num_notes_in_motif - unique)) \div NOTES_PER_BAR
        ELSE 0

detect_repeated_motif(comp) ==
    IF Len(comp) < NOTES_PER_BAR
    THEN [is_repeated |-> FALSE, num_notes_in_motif |-> None]
    ELSE LET last == detect_last_motif(comp)
             motif == last.motif
             prev_composition == SubSeq(comp, 1, Len(comp) - NOTES_PER_BAR)
         IN  IF last.num_unique_notes < unique
             THEN [is_repeated |-> FALSE, num_notes_in_motif |-> None]
             ELSE IF \E i \in 0..(Len(prev_composition) - Len(motif)) :
                        \A j \in 1..Len(motif) : prev_composition[i + j] = motif[j]
             THEN [is_repeated |-> TRUE,
                   num_notes_in_motif |-> last.num_unique_notes]
             ELSE [is_repeated |-> FALSE, num_notes_in_motif |-> None]

reward_repeated_motif(comp) ==
    LET d == detect_repeated_motif(comp)
    IN  IF d.is_repeated /\ d.num_notes_in_motif >= unique
        THEN 100 + (100 * (d.num_notes_in_motif - unique)) \div NOTES_PER_BAR
        ELSE 0

---------------------------------------------------------------------------
(* Intervals *)

(* The while loop of detect_sequential_interval; idx is prev_note_index    *)
(* (0-based, as in the source).                                            *)
RECURSIVE skip_non_notes(_, _, _)
skip_non_notes(comp, prev_note, idx) ==
    IF IsRest(prev_note) /\ idx >= 0
    THEN skip_non_notes(comp, comp[idx + 1], idx - 1)
    ELSE prev_note

(* raised: composition[-2] of a one-element composition is an IndexError.  *)
detect_sequential_interval(comp, action) ==
    IF Len(comp) < 2
    THEN [raised |-> TRUE, interval |-> 0, action_note |-> action,
          prev_note |-> None]
    ELSE LET prev_note == skip_non_notes(comp, comp[Len(comp) - 1],
                                         Len(comp) - 2)
             strong == prev_note \in tonic_notes \/ prev_note \in fifth_notes
             interval == Abs(action - prev_note)
             bucket ==
                 IF IsRest(prev_note) THEN 0
                 ELSE IF action = NO_EVENT
                 THEN (IF strong THEN HOLD_INTERVAL_AFTER_THIRD_OR_FIFTH
                       ELSE HOLD_INTERVAL)
                 ELSE IF action = NOTE_OFF
                 THEN (IF strong THEN REST_INTERVAL_AFTER_THIRD_OR_FIFTH
                       ELSE REST_INTERVAL)
                 ELSE IF interval = FIFTH
                         /\ (prev_note \in c_notes \/ prev_note \in g_notes)
                 THEN IN_KEY_FIFTH
                 ELSE IF interval = THIRD
                         /\ (prev_note \in c_notes \/ prev_note \in e_notes)
                 THEN IN_KEY_THIRD
                 ELSE interval
         IN  [raised |-> FALSE, interval |-> bucket, action_note |-> action,
              prev_note |-> prev_note]

(* Mutant: an octave is already too large a leap.                          *)
interval_weight_octave_penalized(interval) ==
    IF interval = 0 THEN 0
    ELSE IF interval = FIFTH THEN 2
    ELSE IF interval = SIXTH THEN 5
    ELSE IF interval = FOURTH THEN 7
    ELSE IF interval = SECOND THEN 8
    ELSE IF interval = THIRD THEN 9
    ELSE IF interval = IN_KEY_THIRD THEN 15
    ELSE IF interval = IN_KEY_FIFTH THEN 10
    ELSE IF interval >= OCTAVE THEN -100
    ELSE IF interval = SEVENTH THEN -30
    ELSE IF interval = HOLD_INTERVAL_AFTER_THIRD_OR_FIFTH THEN 40
    ELSE IF interval = REST_INTERVAL_AFTER_THIRD_OR_FIFTH THEN 15
    ELSE IF interval = HOLD_INTERVAL THEN 10
    ELSE IF interval = REST_INTERVAL THEN 7
    ELSE 0

(* The chain of ifs of the source, the last assignment first. *)
interval_weight(interval) ==
    IF interval = 0 THEN 0
    ELSE IF interval = FIFTH THEN 2
    ELSE IF interval = SIXTH THEN 5
    ELSE IF interval = FOURTH THEN 7
    ELSE IF interval = SECOND THEN 8
    ELSE IF interval = THIRD THEN 9
    ELSE IF interval = IN_KEY_THIRD THEN 15
    ELSE IF interval = IN_KEY_FIFTH THEN 10
    ELSE IF interval > OCTAVE THEN -100
    ELSE IF interval = SEVENTH THEN -30
    ELSE IF interval = HOLD_INTERVAL_AFTER_THIRD_OR_FIFTH THEN 40
    ELSE IF interval = REST_INTERVAL_AFTER_THIRD_OR_FIFTH THEN 15
    ELSE IF interval = HOLD_INTERVAL THEN 10
    ELSE IF interval = REST_INTERVAL THEN 7
    ELSE 0

reward_preferred_intervals(comp, action) ==
    LET d == detect_sequential_interval(comp, action)
    IN  [raised |-> d.raised,
         reward |-> IF d.raised THEN 0 ELSE interval_weight(d.interval)]

---------------------------------------------------------------------------
(* Leaps *)

is_leap(interval) == interval >= FIFTH \/ interval = IN_KEY_FIFTH

(* Mutant: the gate admits a reversal at exactly steps_between_leaps.      *)
resolved_by_reversal_at_gate(steps) == steps >= steps_between_leaps

(* The leap is rewarded as resolved when it is reversed after this.        *)
resolved_by_reversal(steps) == steps > steps_between_leaps

(* Mutant: coming back exactly to leapt_from does not resolve.             *)
gradually_resolved_strictly(direction, from, action_note) ==
    \/ direction = ASCENDING /\ action_note < from
    \/ direction = DESCENDING /\ action_note > from

(* Gradual resolution: the melody has come back to where it leapt from.    *)
gradually_resolved(direction, from, action_note) ==
    \/ direction = ASCENDING /\ action_note <= from
    \/ direction = DESCENDING /\ action_note >= from

(* Mutant: a doubled leap clears the pending leap, as a reversal does.     *)
doubled_state_cleared(direction, from) ==
    [composition_direction |-> 0, leapt_from |-> None]

(* The leap-tracking state after a second leap in the pending direction.   *)
doubled_state(direction, from) ==
    [composition_direction |-> direction, leapt_from |-> from]

(* detect_leap_up_back on the leap-tracking state (direction, from, steps): *)
(* the outcome and the state it leaves.                                    *)
detect_leap_up_back(comp, action, direction, from, steps) ==
    LET d == detect_sequential_interval(comp, action)
        same == [composition_direction |-> direction, leapt_from |-> from]
        cleared == [composition_direction |-> 0, leapt_from |-> None]
    IN  IF d.raised
        THEN [raised |-> TRUE, outcome |-> 0, state |-> same, steps |-> steps]
        ELSE IF IsRest(d.action_note)
        THEN [raised |-> FALSE, outcome |-> 0, state |-> same,
              steps |-> steps + 1]
        ELSE IF is_leap(d.interval)
        THEN LET leap_direction ==
                     IF d.action_note > d.prev_note THEN ASCENDING
                     ELSE DESCENDING
             IN  IF direction # 0
                 THEN IF direction # leap_direction
                      THEN [raised |-> FALSE,
                            outcome |-> IF resolved_by_reversal(steps)
                                        THEN LEAP_RESOLVED ELSE 0,
                            state |-> cleared, steps |-> 0]
                      ELSE [raised |-> FALSE, outcome |-> LEAP_DOUBLED,
                            state |-> doubled_state(direction, from),
                            steps |-> 0]
                 ELSE [raised |-> FALSE, outcome |-> 0,
                       state |-> [composition_direction |-> leap_direction,
                                  leapt_from |-> d.prev_note],
                       steps |-> 0]
        ELSE IF gradually_resolved(direction, from, d.action_note)
        THEN [raised |-> FALSE, outcome |-> LEAP_RESOLVED, state |-> cleared,
              steps |-> steps + 1]
        ELSE [raised |-> FALSE, outcome |-> 0, state |-> same,
              steps |-> steps + 1]

reward_leap_up_back(leap_outcome) ==
    IF leap_outcome = LEAP_RESOLVED THEN 1
    ELSE IF leap_outcome = LEAP_DOUBLED THEN -1
    ELSE 0

---------------------------------------------------------------------------
(* High and low notes *)

detect_high_unique(comp) ==
    LET max_note == Max({comp[i] : i \in 1..Len(comp)})
    IN  Count(comp, max_note) = 1

(* Mutant: the lowest note is taken among every event, rests included.     *)
detect_low_unique_of_all(comp) ==
    Count(comp, Min({comp[i] : i \in 1..Len(comp)})) = 1

detect_low_unique(comp) ==
    LET no_special_events ==
            {comp[i] : i \in 1..Len(comp)} \ {NO_EVENT, NOTE_OFF}
    IN  IF no_special_events # {}
        THEN Count(comp, Min(no_special_events)) = 1
        ELSE FALSE

reward_high_low_unique(comp, num_notes_) ==
    IF Len(comp) # num_notes_ THEN 0
    ELSE (IF detect_high_unique(comp) THEN 1 ELSE 0)
         + (IF detect_low_unique(comp) THEN 1 ELSE 0)

---------------------------------------------------------------------------
(* The environment *)

NoReturn ==
    [raised |-> FALSE, key |-> 0, tonic |-> 0, repeating |-> 0, motif |-> 0,
     repeated_motif |-> 0, intervals |-> 0, outcome |-> 0, leap |-> 0,
     high_low |-> 0]

(* _reset: a fresh episode.  num_notes is an attribute the caller sets     *)
(* (run.py: env.num_notes = 128) and a reset keeps.                        *)
ResetState ==
    /\ composition = <<>>
    /\ beat = 0
    /\ composition_direction = 0
    /\ leapt_from = None
    /\ steps_since_last_leap = 0
    /\ ret = NoReturn

(* num_notes is drawn from min_notes..max_notes: every specification    *)
(* takes an episode at least one bar long, so that it has a final bar.   *)
InitWith(min_notes, max_notes) ==
    /\ num_notes \in min_notes..max_notes
    /\ ResetState

(* Mutant: the reset starts a new composition and keeps the leap tracking. *)
Reset_keeping_leap ==
    /\ composition' = <<>>
    /\ beat' = 0
    /\ ret' = NoReturn
    /\ UNCHANGED <<num_notes, composition_direction, leapt_from,
                   steps_since_last_leap>>

Reset ==
    /\ composition' = <<>>
    /\ beat' = 0
    /\ composition_direction' = 0
    /\ leapt_from' = None
    /\ steps_since_last_leap' = 0
    /\ ret' = NoReturn
    /\ UNCHANGED num_notes

(* _step: the base step appends the action and advances the beat, then the *)
(* terms are computed in the source's order.  ret is what the terms        *)
(* returned; when a term raises, the exception leaves _step with no value  *)
(* (raised, every term 0) and the state as the terms before it left it.    *)
(* An episode is over after num_notes steps.                               *)
Step(action) ==
    /\ Len(composition) < num_notes
    /\ composition' = Append(composition, action)
    /\ beat' = beat + 1
    /\ UNCHANGED num_notes
    /\ LET comp == Append(composition, action)
           pref == reward_preferred_intervals(comp, action)
           leap == detect_leap_up_back(comp, action, composition_direction,
                                       leapt_from, steps_since_last_leap)
       IN  IF pref.raised
           THEN /\ ret' = [NoReturn EXCEPT !.raised = TRUE]
                /\ UNCHANGED <<composition_direction, leapt_from,
                               steps_since_last_leap>>
           ELSE /\ composition_direction' = leap.state.composition_direction
                /\ leapt_from' = leap.state.leapt_from
                /\ steps_since_last_leap' = leap.steps
                /\ ret' = [raised |-> FALSE,
                           key |-> reward_key(action),
                           tonic |-> reward_tonic(action, beat + 1, num_notes),
                           repeating |-> reward_penalize_repeating(comp, action),
                           motif |-> reward_motif(comp),
                           repeated_motif |-> reward_repeated_motif(comp),
                           intervals |-> pref.reward,
                           outcome |-> leap.outcome,
                           leap |-> reward_leap_up_back(leap.outcome),
                           high_low |-> reward_high_low_unique(comp, num_notes)]

---------------------------------------------------------------------------
(* Specifications: one per set of actions the driver draws from. *)

Init == InitWith(NOTES_PER_BAR, MaxNotes)
StepAny == \E action \in Actions : Step(action)
Next == StepAny \/ Reset
Spec == Init /\ [][Next]_vars

InitMotif == InitWith(MaxNotesMotif, MaxNotesMotif)
StepMotif == \E action \in ActionsMotif : Step(action)
NextMotif == StepMotif \/ Reset
SpecMotif == InitMotif /\ [][NextMotif]_vars

(* The driver of SpecRepeat goes on to a different event at most          *)
(* MaxChanges times in an episode and repeats the last one otherwise.      *)
Changes(comp) ==
    Cardinality({i \in 2..Len(comp) : comp[i] # comp[i - 1]})

InitRepeat == InitWith(MaxNotesRepeat, MaxNotesRepeat)
StepRepeat ==
    \E action \in ActionsRepeat :
        /\ IF composition = <<>> THEN TRUE
           ELSE \/ action = composition[Len(composition)]
                \/ Changes(composition) < MaxChanges
        /\ Step(action)
NextRepeat == StepRepeat \/ Reset
SpecRepeat == InitRepeat /\ [][NextRepeat]_vars

(* The driver of SpecLeap plays at most MaxPitchEvents sounding pitches in *)
(* an episode and holds the rest of the time.                              *)
PitchEvents(comp) == Cardinality({i \in 1..Len(comp) : ~IsRest(comp[i])})

InitLeap == InitWith(MaxNotesLeap, MaxNotesLeap)
StepLeap ==
    \E action \in ActionsLeap :
        /\ IsRest(action) \/ PitchEvents(composition) < MaxPitchEvents
        /\ Step(action)
NextLeap == StepLeap \/ Reset
SpecLeap == InitLeap /\ [][NextLeap]_vars

---------------------------------------------------------------------------
(* Properties *)

Last(comp) == comp[Len(comp)]

(* A step was just taken and its terms returned. *)
Returned == Len(composition) >= 1 /\ ~ret.raised

(* This transition is a step (it appends the action). *)
IsStep == Len(composition') = Len(composition) + 1

(* The most recent sounding pitch before the last element, where one exists. *)
HasPriorPitch(comp) == \E i \in 1..(Len(comp) - 1) : ~IsRest(comp[i])
PriorPitch(comp) ==
    comp[Max({i \in 1..(Len(comp) - 1) : ~IsRest(comp[i])})]

(* The action just appended is a sounding pitch a fifth or more away from  *)
(* the pitch before it.                                                    *)
LeapArrived(comp) ==
    /\ Len(comp) >= 2
    /\ ~IsRest(Last(comp))
    /\ HasPriorPitch(comp)
    /\ Abs(Last(comp) - PriorPitch(comp)) >= FIFTH

LeapDirection(comp) ==
    IF Last(comp) > PriorPitch(comp) THEN ASCENDING ELSE DESCENDING

(* The action just appended is a sounding pitch less than a fifth away     *)
(* from the pitch before it.                                               *)
SmallIntervalArrived(comp) ==
    /\ Len(comp) >= 2
    /\ ~IsRest(Last(comp))
    /\ HasPriorPitch(comp)
    /\ Abs(Last(comp) - PriorPitch(comp)) < FIFTH

(* C1: a leap arriving while a leap in the opposite direction is pending   *)
(* is LEAP_RESOLVED exactly when steps_since_last_leap >                   *)
(* steps_between_leaps at that moment and 0 otherwise; either way the      *)
(* pending leap is cleared and steps_since_last_leap is reset to 0.        *)
C1_ReversalGate ==
    [][(/\ IsStep
        /\ LeapArrived(composition')
        /\ composition_direction # 0
        /\ composition_direction # LeapDirection(composition'))
       => (/\ ~ret'.raised
           /\ ret'.outcome = (IF steps_since_last_leap > steps_between_leaps
                              THEN LEAP_RESOLVED ELSE 0)
           /\ composition_direction' = 0
           /\ leapt_from' = None
           /\ steps_since_last_leap' = 0)]_vars

(* A reversal that was rewarded: only a leap leaves steps_since_last_leap  *)
(* at 0, and only a reversal makes a leap LEAP_RESOLVED.                   *)
C1_Witness ==
    /\ Returned
    /\ LeapArrived(composition)
    /\ ret.outcome = LEAP_RESOLVED
    /\ steps_since_last_leap = 0
    /\ composition_direction = 0

(* C2: a leap arriving while a leap in the same direction is pending is    *)
(* LEAP_DOUBLED, rewarded -1, and leaves composition_direction and         *)
(* leapt_from as they were.                                                *)
C2_DoubledLeap ==
    [][(/\ IsStep
        /\ LeapArrived(composition')
        /\ composition_direction # 0
        /\ composition_direction = LeapDirection(composition'))
       => (/\ ~ret'.raised
           /\ ret'.outcome = LEAP_DOUBLED
           /\ ret'.leap = -1
           /\ composition_direction' = composition_direction
           /\ leapt_from' = leapt_from)]_vars

C2_Witness ==
    /\ Returned
    /\ LeapArrived(composition)
    /\ ret.outcome = LEAP_DOUBLED
    /\ composition_direction = ASCENDING
    /\ leapt_from # None

(* C9: a sounding pitch less than a fifth from the pitch before it adds   *)
(* one to steps_since_last_leap; when an ASCENDING leap is pending and the *)
(* pitch is at or below leapt_from (or a DESCENDING one and at or above),  *)
(* the outcome is LEAP_RESOLVED and the pending leap is cleared, whatever  *)
(* steps_since_last_leap is; otherwise the outcome is 0 and the pending    *)
(* leap is as it was.                                                      *)
C9_GradualResolution ==
    [][(IsStep /\ SmallIntervalArrived(composition'))
       => LET action == Last(composition')
              back == \/ composition_direction = ASCENDING
                         /\ action <= leapt_from
                      \/ composition_direction = DESCENDING
                         /\ action >= leapt_from
          IN  /\ ~ret'.raised
              /\ steps_since_last_leap' = steps_since_last_leap + 1
              /\ back => /\ ret'.outcome = LEAP_RESOLVED
                         /\ composition_direction' = 0
                         /\ leapt_from' = None
              /\ ~back => /\ ret'.outcome = 0
                          /\ composition_direction' = composition_direction
                          /\ leapt_from' = leapt_from]_vars

(* A gradual resolution well before steps_between_leaps steps have passed. *)
C9_Witness ==
    /\ Returned
    /\ SmallIntervalArrived(composition)
    /\ ret.outcome = LEAP_RESOLVED
    /\ steps_since_last_leap >= 1
    /\ steps_since_last_leap <= steps_between_leaps
    /\ composition_direction = 0

(* The run reward_penalize_repeating scans: from the second-to-last       *)
(* element back to, and without, the first element that is neither the     *)
(* action, HOLD nor NOTE-OFF.  ScanFrom is the index where it begins.      *)
InRun(x, action) == x = action \/ IsRest(x)
ScanFrom(comp) ==
    Min({k \in 1..Len(comp) :
            \A i \in k..(Len(comp) - 1) : InRun(comp[i], Last(comp))})
ScannedRun(comp) == ScanFrom(comp)..(Len(comp) - 1)
RepeatCount(comp) ==
    Cardinality({i \in ScannedRun(comp) : comp[i] = Last(comp)})
(* The scan passes over a HOLD or NOTE-OFF element. *)
PassesRest(comp) == \E i \in ScannedRun(comp) : IsRest(comp[i])
(* The scan passes over a HOLD or NOTE-OFF element that is not the action. *)
PassesOtherRest(comp) ==
    \E i \in ScannedRun(comp) : IsRest(comp[i]) /\ comp[i] # Last(comp)
(* How many times the action's pitch stands immediately before it. *)
ImmediateRepeats(comp) ==
    Cardinality({k \in 1..(Len(comp) - 1) :
                    \A i \in k..(Len(comp) - 1) : comp[i] = Last(comp)})
NegMax0(x) == IF x > 0 THEN -x ELSE 0

WindowPitches(comp) ==
    {comp[i] : i \in {k \in 1..Len(comp) : k > Len(comp) - NOTES_PER_BAR}}
        \ {NO_EVENT, NOTE_OFF}

(* C5: reward_motif and reward_repeated_motif are 0 whenever the trailing  *)
(* one-bar window holds fewer than 3 distinct sounding pitches, and for    *)
(* every composition shorter than a bar, where detect_last_motif reports   *)
(* no motif and a count of 0.                                              *)
C5_NoMotifReward ==
    /\ (Len(composition) < NOTES_PER_BAR
        \/ Cardinality(WindowPitches(composition)) < 3)
       => /\ reward_motif(composition) = 0
          /\ reward_repeated_motif(composition) = 0
          /\ Returned => (ret.motif = 0 /\ ret.repeated_motif = 0)
    /\ Len(composition) < NOTES_PER_BAR
       => detect_last_motif(composition)
              = [motif |-> <<>>, num_unique_notes |-> 0]

(* A bar of two distinct pitches and rests, played twice over. *)
C5_Witness ==
    /\ Returned
    /\ Len(composition) = 2 * NOTES_PER_BAR
    /\ Cardinality(WindowPitches(composition)) = 2
    /\ \E i \in 1..Len(composition) : composition[i] = NO_EVENT
    /\ \A j \in 1..NOTES_PER_BAR :
           composition[j] = composition[NOTES_PER_BAR + j]
    /\ ret.motif = 0
    /\ ret.repeated_motif = 0

(* The largest value of the composition occurs once in it. *)
MaxOnce(comp) ==
    \E i \in 1..Len(comp) :
        \A j \in 1..Len(comp) : j # i => comp[j] < comp[i]
(* There is a sounding pitch, and the lowest one occurs once. *)
MinPitchOnce(comp) ==
    \E i \in 1..Len(comp) :
        /\ ~IsRest(comp[i])
        /\ \A j \in 1..Len(comp) :
               (j # i /\ ~IsRest(comp[j])) => comp[j] > comp[i]

(* C6: reward_high_low_unique is 0 while the composition is not num_notes  *)
(* long; at that length it is 1 for the largest value occurring once plus  *)
(* 1 for the lowest sounding pitch existing and occurring once.            *)
C6_HighLowUnique ==
    Len(composition) >= 1 =>
        LET r == reward_high_low_unique(composition, num_notes)
        IN  /\ r \in {0, 1, 2}
            /\ Len(composition) # num_notes => r = 0
            /\ Len(composition) = num_notes
               => r = (IF MaxOnce(composition) THEN 1 ELSE 0)
                      + (IF MinPitchOnce(composition) THEN 1 ELSE 0)
            /\ Returned => ret.high_low = r

(* Full length, the highest note once and the lowest pitch twice: 1. *)
C6_Witness ==
    /\ Returned
    /\ Len(composition) = num_notes
    /\ MaxOnce(composition)
    /\ \E i, j \in 1..Len(composition) :
           /\ i # j
           /\ ~IsRest(composition[i])
           /\ composition[i] = composition[j]
           /\ \A k \in 1..Len(composition) :
                  ~IsRest(composition[k]) => composition[k] >= composition[i]
    /\ \E i \in 1..Len(composition) : IsRest(composition[i])
    /\ ret.high_low = 1

(* C7: a pitch exactly an octave from the sounding pitch before it has a   *)
(* preferred-interval reward of 0.0; more than an octave has -1.0 and a    *)
(* seventh -0.3 (in hundredths: 0, -100, -30).                             *)
C7_OctaveInterval ==
    (/\ Len(composition) >= 2
     /\ ~IsRest(Last(composition))
     /\ HasPriorPitch(composition))
    => LET interval == Abs(Last(composition) - PriorPitch(composition))
           p == reward_preferred_intervals(composition, Last(composition))
       IN  /\ ~p.raised
           /\ interval = OCTAVE => p.reward = 0
           /\ interval > OCTAVE => p.reward = -100
           /\ interval = SEVENTH => p.reward = -30
           /\ Returned /\ ret.intervals = p.reward

C7_Witness ==
    /\ Returned
    /\ Len(composition) >= 2
    /\ ~IsRest(Last(composition))
    /\ HasPriorPitch(composition)
    /\ Abs(Last(composition) - PriorPitch(composition)) = OCTAVE
    /\ ret.intervals = 0

(* C8: when no sounding pitch precedes the action just appended (only      *)
(* HOLDs and NOTE-OFFs do, or the action is the only element),             *)
(* detect_sequential_interval returns the no-interval bucket 0 and does    *)
(* not fail, reward_preferred_intervals returns 0.0 and                    *)
(* detect_leap_up_back reports no leap.                                    *)
C8_NoPriorPitch ==
    (Len(composition) >= 1 /\ ~HasPriorPitch(composition))
    => LET d == detect_sequential_interval(composition, Last(composition))
       IN  /\ ~d.raised
           /\ d.interval = 0
           /\ ~ret.raised
           /\ ret.intervals = 0
           /\ ret.outcome = 0

(* The pending leap was made in this composition: leapt_from is a pitch   *)
(* of it, and the next sounding pitch after it is a fifth or more away in  *)
(* the pending direction.                                                  *)
PendingFromThisEpisode ==
    \E i, j \in 1..Len(composition) :
        /\ i < j
        /\ composition[i] = leapt_from
        /\ ~IsRest(composition[i])
        /\ ~IsRest(composition[j])
        /\ \A k \in (i + 1)..(j - 1) : IsRest(composition[k])
        /\ Abs(composition[j] - composition[i]) >= FIFTH
        /\ composition_direction =
               (IF composition[j] > composition[i] THEN ASCENDING
                ELSE DESCENDING)

(* In every state: composition_direction is NONE exactly when leapt_from   *)
(* is absent, steps_since_last_leap is a natural number, and a pending     *)
(* leap is one of the current episode.                                     *)
LeapStateConsistent ==
    /\ composition_direction \in {0, ASCENDING, DESCENDING}
    /\ composition_direction = 0 <=> leapt_from = None
    /\ steps_since_last_leap \in Nat
    /\ composition_direction # 0 => PendingFromThisEpisode

(* On every transition: a reset leaves {NONE, absent, 0} whatever the      *)
(* state before it, and a step whose leap outcome is not 0 began with a    *)
(* leap pending.                                                           *)
LeapStateTransition ==
    /\ composition' = <<>>
       => /\ composition_direction' = 0
          /\ leapt_from' = None
          /\ steps_since_last_leap' = 0
    /\ (IsStep /\ ret'.outcome # 0)
       => /\ ret'.outcome \in {LEAP_RESOLVED, LEAP_DOUBLED}
          /\ composition_direction # 0
          /\ leapt_from # None
          /\ PendingFromThisEpisode

(* C11: in every state reachable from a reset by steps,                    *)
(* composition_direction is NONE exactly when leapt_from is absent and     *)
(* steps_since_last_leap is non-negative; a reset yields {NONE, absent, 0} *)
(* whatever the previous episode left, so a leap outcome other than 0      *)
(* comes only from a step that began with a leap pending from the same     *)
(* episode.                                                                *)
C11_LeapStateLifecycle ==
    /\ []LeapStateConsistent
    /\ [][LeapStateTransition]_vars

(* A descending leap left pending some steps ago, in an episode about to   *)
(* be reset.                                                               *)
C11_Witness ==
    /\ Returned
    /\ composition_direction = DESCENDING
    /\ leapt_from # None
    /\ steps_since_last_leap >= 2
    /\ PendingFromThisEpisode

=============================================================================
